---- MODULE Spec2Model ----
(***************************************************************************)
(* Verification model of the Fornjot kernel's boolean union                *)
(* (crates/fj-kernel/src/algorithms/union.rs), of its object traversal     *)
(* (crates/fj-kernel/src/iter.rs) and of its triangulation driver          *)
(* (crates/fj-kernel/src/algorithms/triangulation/mod.rs).                 *)
(*                                                                         *)
(* Geometry is modelled on axis-aligned cuboid faces with integer          *)
(* coordinates in half units: `Solid::cube_from_edge_length(e)` spans      *)
(* [-e, e] on every axis, `translate(t)` moves it by 2*t.                  *)
(***************************************************************************)
EXTENDS Integers, Sequences, FiniteSets, TLC

VARIABLES
    a,          \* union: first argument, a Solid (its faces, in the set's order)
    b,          \* union: second argument
    i,          \* union: position of the outer loop, `for face_a in a.faces()`
    j,          \* union: position of the inner loop, `for face_b in b.faces()`
    faces,      \* union: `let mut faces = BTreeSet::new()`
    pc,         \* union: "loop", "done" (returned) or "panicked" (todo!())
    result,     \* union: {} before the return, {the returned Solid} after it
    dropped,    \* union: the edges the body has built and dropped (`let _ =`)
    object,     \* traversal: the object the iterators are asked of
    kind,       \* traversal: the kind of object the caller asks for
    iters,      \* traversal: the caller's iterators, each the VecDeque of an
                \* Iter and the objects the caller has taken from it
    shape,      \* triangulate: the faces of the Shape, in the order of the loop
    nface,      \* triangulate: position of `for face in shape.faces()`
    mesh,       \* triangulate: `let mut mesh = Mesh::new()`, its triangles
    debug_info, \* triangulate: what `debug_info` has collected
    calls       \* triangulate: the stages that ran, as <<face position, stage>>

vars == <<a, b, i, j, faces, pc, result, dropped, object, kind, iters,
          shape, nface, mesh, debug_info, calls>>

unionVars == <<a, b, i, j, faces, pc, result, dropped>>
iterVars == <<object, kind, iters>>
triVars == <<shape, nface, mesh, debug_info, calls>>

-----------------------------------------------------------------------------
(* Bounds of the model *)

\* largest edge length handed to cube_from_edge_length
MaxEdge == 2

\* largest component of the translation vector of the second solid
MaxShift == 2

\* number of points that polygons are built from
MaxPoints == 3

\* number of faces of the shape handed to triangulate
MaxFaces == 2

-----------------------------------------------------------------------------
(* Geometry: faces, surfaces, solids *)

Axes == 1..3

\* the axis that is neither k1 nor k2 (k1 # k2)
ThirdAxis(k1, k2) == CHOOSE k \in Axes : k # k1 /\ k # k2

\* One planar, rectangular face: it lies in the plane  axis = pos  and spans
\* lo[k]..hi[k] on the two other axes.
MkFace(k, p, lo, hi) ==
    [axis |-> k, pos |-> p,
     lo |-> [lo EXCEPT ![k] = p], hi |-> [hi EXCEPT ![k] = p]]

\* face.surface(): the infinite plane the face lies in
surface(face) == [axis |-> face.axis, pos |-> face.pos]

\* The total order of the BTreeSet of faces, on the structural content
FaceKey(f) == <<f.axis, f.pos, f.lo[1], f.lo[2], f.lo[3], f.hi[1], f.hi[2], f.hi[3]>>

RECURSIVE LexLess(_, _)
LexLess(s, t) ==
    IF s = <<>> \/ t = <<>> THEN FALSE
    ELSE IF Head(s) # Head(t) THEN Head(s) < Head(t)
    ELSE LexLess(Tail(s), Tail(t))

FaceLeq(f, g) == f = g \/ LexLess(FaceKey(f), FaceKey(g))

\* Solid::from_faces: a Solid holds its faces as an ordered set, modelled as
\* the duplicate-free sequence of the faces in the set's order
RECURSIVE Solid_from_faces(_)
Solid_from_faces(fs) ==
    IF fs = {} THEN <<>>
    ELSE LET m == CHOOSE x \in fs : \A y \in fs : FaceLeq(x, y)
         IN  <<m>> \o Solid_from_faces(fs \ {m})

\* the set of the faces of a solid
FaceSet(solid) == {solid[n] : n \in 1..Len(solid)}

\* the six faces of the cuboid that spans lo[k]..hi[k] on every axis k
BoxFaces(lo, hi) ==
    {MkFace(k, lo[k], lo, hi) : k \in Axes} \cup
    {MkFace(k, hi[k], lo, hi) : k \in Axes}

\* Solid::cube_from_edge_length(e): the cube centred on the origin
cube_from_edge_length(e) ==
    Solid_from_faces(BoxFaces([k \in Axes |-> 0 - e], [k \in Axes |-> e]))

\* TransformObject::translate on a face and on a solid
translate_face(face, t) ==
    [axis |-> face.axis,
     pos  |-> face.pos + 2 * t[face.axis],
     lo   |-> [k \in Axes |-> face.lo[k] + 2 * t[k]],
     hi   |-> [k \in Axes |-> face.hi[k] + 2 * t[k]]]

translate(solid, t) ==
    Solid_from_faces({translate_face(f, t) : f \in FaceSet(solid)})

-----------------------------------------------------------------------------
(* Intersection (algorithms/intersection) *)

None == [none |-> TRUE]

\* intersection::surface_surface: no curve for parallel planes; otherwise the
\* line in which the planes meet, in a's frame, in b's frame and globally.
surface_surface(sa, sb) ==
    IF sa.axis = sb.axis THEN None
    ELSE LET d == ThirdAxis(sa.axis, sb.axis)
         IN  [none    |-> FALSE,
              curve_a |-> [fixed |-> sb.axis, at |-> sb.pos, dir |-> d],
              curve_b |-> [fixed |-> sa.axis, at |-> sa.pos, dir |-> d],
              curve   |-> [dir |-> d,
                           at  |-> [k \in Axes |->
                                      IF k = sa.axis THEN sa.pos
                                      ELSE IF k = sb.axis THEN sb.pos
                                      ELSE 0]]]

\* CurveFaceIntersectionList::compute: the intervals of the curve's parameter
\* in which the curve lies inside the face
CurveFaceIntersectionList_compute(curve, face) ==
    IF face.lo[curve.fixed] < curve.at /\ curve.at < face.hi[curve.fixed]
    THEN <<<<face.lo[curve.dir], face.hi[curve.dir]>>>>
    ELSE <<>>

is_empty(list) == list = <<>>

-----------------------------------------------------------------------------
(* Inputs *)

Edges == 1..MaxEdge

Shifts == {<<x, y, z>> : x \in 0..MaxShift, y \in 0..MaxShift, z \in 0..MaxShift}

\* Solid::from_faces on the faces of a solid that are normal to the axes X
FacesOnAxes(solid, X) ==
    Solid_from_faces({f \in FaceSet(solid) : f.axis \in X})

\* Solid::from_faces on all faces of two cubes of one size that lie apart (the
\* solid that tests::distinct builds from `all_faces`)
TwoCubes ==
    {Solid_from_faces(
        FaceSet(cube_from_edge_length(e)) \cup
        FaceSet(translate(cube_from_edge_length(e), <<x, e + 1, 0>>))) :
        e \in Edges, x \in 0..MaxShift}

\* a cube, or two cubes, or a solid made from the faces of a cube that are
\* normal to the first n axes (n = 0: a solid without faces)
Solids ==
    {FacesOnAxes(cube_from_edge_length(e), 1..n) : e \in Edges, n \in 0..3}
    \cup TwoCubes

\* first arguments of union
SolidsA == Solids

\* second arguments of union: the same solids, translated
SolidsB == {translate(s, t) : s \in Solids, t \in Shifts}

\* No plane of one face passes through the boundary of the other face, and
\* the two faces do not lie in the same plane.
FacesInGeneralPosition(fa, fb) ==
    IF fa.axis = fb.axis THEN fa.pos # fb.pos
    ELSE /\ fb.pos \notin {fa.lo[fb.axis], fa.hi[fb.axis]}
         /\ fa.pos \notin {fb.lo[fa.axis], fb.hi[fa.axis]}

GeneralPosition(sa, sb) ==
    \A fa \in FaceSet(sa), fb \in FaceSet(sb) : FacesInGeneralPosition(fa, fb)

-----------------------------------------------------------------------------
(* Objects, as far as the traversal looks at them: their kind, what        *)
(* distinguishes them, and the objects they hold                            *)

Kinds ==
    {"curve", "cycle", "edge", "face", "global_vertex", "sketch", "solid",
     "surface", "vertex"}

\* Surface::xy_plane(), Surface::xz_plane()
Surfaces == {1, 2}

Surface_plane(s) == [kind |-> "surface", plane |-> s]

\* the global position of the point p of the surface s
point_from_surface_coords(s, p) == <<s, p>>

GlobalVertex_from_position(pos) == [kind |-> "global_vertex", position |-> pos]

Vertex_new(t, global) == [kind |-> "vertex", position |-> t, global |-> global]

\* the line through two global positions, and the circle, as global curves
Curve_line(from, to) == [kind |-> "curve", line |-> <<from, to>>]
Curve_circle(s) == [kind |-> "curve", circle |-> s]

Local_new(local, global) == [local_form |-> local, global_form |-> global]

Edge_new(curve, vertices) ==
    [kind |-> "edge", curve |-> curve, vertices |-> vertices]

\* Edge::line_segment_from_points(surface, [p, q])
Edge_line_segment_from_points(s, p, q) ==
    LET gp == point_from_surface_coords(s, p)
        gq == point_from_surface_coords(s, q)
    IN  Edge_new(Local_new(<<p, q>>, Curve_line(gp, gq)),
                 <<Vertex_new(0, GlobalVertex_from_position(gp)),
                   Vertex_new(1, GlobalVertex_from_position(gq))>>)

\* an edge on a closed curve: it has no vertices
Edge_circle(s) == Edge_new(Local_new(<<>>, Curve_circle(s)), <<>>)

Cycle_new(edges) == [kind |-> "cycle", edges |-> edges]

\* Cycle::polygon_from_points(surface, points): one edge from each point to
\* the next one, the last edge back to the first point
Cycle_polygon_from_points(s, points) ==
    Cycle_new([n \in 1..Len(points) |->
        Edge_line_segment_from_points(
            s, points[n], points[(n % Len(points)) + 1])])

\* Face::builder(surface).with_exterior_polygon(..)[.with_interior..].build()
Face_brep(s, exteriors, interiors) ==
    [kind |-> "face", representation |-> "BRep", surface |-> Surface_plane(s),
     exteriors |-> exteriors, interiors |-> interiors]

\* a face that is given by its triangles
Face_triangles(tris) ==
    [kind |-> "face", representation |-> "Triangles", triangles |-> tris]

\* face.triangles().is_some()
triangles_is_some(face) == face.representation = "Triangles"

\* face.all_cycles()
all_cycles(face) == face.exteriors \o face.interiors

Sketch_from_faces(fs) == [kind |-> "sketch", faces |-> fs]

Solid_object_from_faces(fs) == [kind |-> "solid", faces |-> fs]

-----------------------------------------------------------------------------
(* union *)

\* the faces the two loops are at
face_a == a[i]
face_b == b[j]

\* MatchArms with the arm (false, true) inserting face_a cut down to the
\* half below its middle
MatchArms_cutFace(fa, fb, empty_a, empty_b) ==
    CASE ~empty_a /\ empty_b  ->
             [panic |-> FALSE,
              insert |-> {[fa EXCEPT !.hi = [k \in Axes |-> IF k = fa.axis THEN fa.hi[k]
                                                            ELSE fa.lo[k] + 1]]}]
      [] empty_a /\ ~empty_b  -> [panic |-> FALSE, insert |-> {fb}]
      [] empty_a /\ empty_b   -> [panic |-> FALSE, insert |-> {fa, fb}]
      [] OTHER                -> [panic |-> TRUE,  insert |-> {}]

\* MatchArms with the arm (true, true) inserting face_a only
MatchArms_bothOnlyA(fa, fb, empty_a, empty_b) ==
    CASE ~empty_a /\ empty_b  -> [panic |-> FALSE, insert |-> {fa}]
      [] empty_a /\ ~empty_b  -> [panic |-> FALSE, insert |-> {fb}]
      [] empty_a /\ empty_b   -> [panic |-> FALSE, insert |-> {fa}]
      [] OTHER                -> [panic |-> TRUE,  insert |-> {}]

\* MatchArms with the arm (false, true) inserting both faces
MatchArms_keepBoth(fa, fb, empty_a, empty_b) ==
    CASE ~empty_a /\ ~empty_b -> [panic |-> TRUE,  insert |-> {}]
      [] OTHER                -> [panic |-> FALSE, insert |-> {fa, fb}]

\* the `match (intersections_a.is_empty(), intersections_b.is_empty())`
\* of union: the faces the pair inserts, or the todo!() of the last arm
MatchArms(fa, fb, empty_a, empty_b) ==
    CASE ~empty_a /\ empty_b  -> [panic |-> FALSE, insert |-> {fa}]
      [] empty_a /\ ~empty_b  -> [panic |-> FALSE, insert |-> {fb}]
      [] empty_a /\ empty_b   -> [panic |-> FALSE, insert |-> {fa, fb}]
      [] OTHER                -> [panic |-> TRUE,  insert |-> {}]

\* the position of the two loops after the body has run for (i, j)
Advance ==
    IF j < Len(b)
    THEN i' = i /\ j' = j + 1
    ELSE i' = i + 1 /\ j' = 1

\* CurveFaceIntersectionList::merge: the union of two lists of intervals,
\* sorted, intervals that touch or overlap made one
RECURSIVE Coalesce(_)
Coalesce(S) ==
    IF \E x \in S, y \in S : x # y /\ x[1] <= y[2] /\ y[1] <= x[2]
    THEN LET pair == CHOOSE q \in S \X S :
                        q[1] # q[2] /\ q[1][1] <= q[2][2] /\ q[2][1] <= q[1][2]
             x == pair[1]
             y == pair[2]
             lo == IF x[1] <= y[1] THEN x[1] ELSE y[1]
             hi == IF x[2] >= y[2] THEN x[2] ELSE y[2]
         IN  Coalesce((S \ {x, y}) \cup {<<lo, hi>>})
    ELSE S

RECURSIVE IntervalsInOrder(_)
IntervalsInOrder(S) ==
    IF S = {} THEN <<>>
    ELSE LET x == CHOOSE y \in S : \A z \in S : y[1] <= z[1]
         IN  <<x>> \o IntervalsInOrder(S \ {x})

CurveFaceIntersectionList_merge(self, other) ==
    IntervalsInOrder(Coalesce({self[k] : k \in 1..Len(self)} \cup
                              {other[k] : k \in 1..Len(other)}))

\* curve.point_from_curve_coords(point)
point_from_curve_coords(curve, coord) ==
    [k \in Axes |-> IF k = curve.dir THEN coord ELSE curve.at[k]]

\* the body of `for interval in intersections`: edge_a and edge_b
EdgesOfInterval(intersection, interval) ==
    LET start == interval[1]
        end == interval[2]
        start_global == GlobalVertex_from_position(
                            point_from_curve_coords(intersection.curve, start))
        end_global == GlobalVertex_from_position(
                          point_from_curve_coords(intersection.curve, end))
        vertices == <<Vertex_new(start, start_global), Vertex_new(end, end_global)>>
        global_curve == [kind |-> "curve", line |-> intersection.curve]
    IN  {Edge_new(Local_new(intersection.curve_a, global_curve), vertices),
         Edge_new(Local_new(intersection.curve_b, global_curve), vertices)}

\* One run of the body of the two nested loops, for the pair (face_a, face_b)
UnionFacePair ==
    /\ pc = "loop"
    /\ i <= Len(a)
    /\ j <= Len(b)
    /\ LET intersection == surface_surface(surface(face_a), surface(face_b))
       IN  IF intersection.none
           THEN \* None => continue
                /\ Advance
                /\ UNCHANGED <<faces, pc, dropped>>
           ELSE LET intersections_a ==
                        CurveFaceIntersectionList_compute(intersection.curve_a, face_a)
                    intersections_b ==
                        CurveFaceIntersectionList_compute(intersection.curve_b, face_b)
                    arm == MatchArms(face_a, face_b,
                                     is_empty(intersections_a),
                                     is_empty(intersections_b))
                    intersections ==
                        CurveFaceIntersectionList_merge(intersections_a, intersections_b)
                IN  IF arm.panic
                    THEN /\ pc' = "panicked"
                         /\ UNCHANGED <<i, j, faces, dropped>>
                    ELSE /\ faces' = faces \cup arm.insert
                         /\ dropped' = dropped \cup
                               UNION {EdgesOfInterval(intersection, intersections[k]) :
                                         k \in 1..Len(intersections)}
                         /\ Advance
                         /\ UNCHANGED pc
    /\ UNCHANGED <<a, b, result>>
    /\ UNCHANGED iterVars
    /\ UNCHANGED triVars

\* Both loops are over: `Solid::from_faces(faces)`
UnionReturn ==
    /\ pc = "loop"
    /\ (i > Len(a) \/ Len(b) = 0)
    /\ result' = {Solid_from_faces(faces)}
    /\ pc' = "done"
    /\ UNCHANGED <<a, b, i, j, faces, dropped>>
    /\ UNCHANGED iterVars
    /\ UNCHANGED triVars

Init ==
    /\ a \in SolidsA
    /\ b \in SolidsB
    /\ GeneralPosition(a, b)
    /\ i = 1
    /\ j = 1
    /\ faces = {}
    /\ pc = "loop"
    /\ result = {}
    /\ dropped = {}
    /\ object = <<>>
    /\ kind = "none"
    /\ iters = [w \in {"first", "second"} |-> [live |-> FALSE, deque |-> <<>>, taken |-> <<>>]]
    /\ shape = <<>>
    /\ nface = 1
    /\ mesh = <<>>
    /\ debug_info = <<>>
    /\ calls = {}

Next == UnionFacePair \/ UnionReturn

Spec == Init /\ [][Next]_vars

-----------------------------------------------------------------------------
(* ObjectIters and Iter (iter.rs) *)

\* referenced_objects with a Face that pushes only its exterior cycles
referenced_objects_exteriors(o) ==
    CASE o.kind = "cycle"         -> o.edges
      [] o.kind = "edge"          -> <<o.curve.global_form>> \o o.vertices
      [] o.kind = "face"          -> IF triangles_is_some(o) THEN <<>>
                                     ELSE <<o.surface>> \o o.exteriors
      [] o.kind = "sketch"        -> o.faces
      [] o.kind = "solid"         -> o.faces
      [] o.kind = "vertex"        -> <<o.global>>
      [] OTHER                    -> <<>>

\* ObjectIters::referenced_objects, one arm for each implementation
referenced_objects(o) ==
    CASE o.kind = "curve"         -> <<>>
      [] o.kind = "cycle"         -> o.edges
      [] o.kind = "edge"          -> <<o.curve.global_form>> \o o.vertices
      [] o.kind = "face"          -> IF triangles_is_some(o) THEN <<>>
                                     ELSE <<o.surface>> \o all_cycles(o)
      [] o.kind = "global_vertex" -> <<>>
      [] o.kind = "sketch"        -> o.faces
      [] o.kind = "solid"         -> o.faces
      [] o.kind = "surface"       -> <<>>
      [] o.kind = "vertex"        -> <<o.global>>

\* Iter::empty, Iter::from_object
Iter_empty == <<>>
Iter_from_object(o) == <<o>>

\* VecDeque::contains
contains(deque, o) == \E n \in 1..Len(deque) : deque[n] = o

\* Iter::with without the test `!self.0.contains(&object)`
Iter_with_nocheck(self, other) == self \o other

\* Iter::with with push_front in the place of push_back
RECURSIVE Iter_with_front(_, _)
Iter_with_front(self, other) ==
    IF other = <<>> THEN self
    ELSE Iter_with_front(IF ~contains(self, Head(other))
                         THEN <<Head(other)>> \o self
                         ELSE self,
                         Tail(other))

\* Iter::with: the objects of `other` that self does not hold are appended
RECURSIVE Iter_with(_, _)
Iter_with(self, other) ==
    IF other = <<>> THEN self
    ELSE Iter_with(IF ~contains(self, Head(other))
                   THEN Append(self, Head(other))
                   ELSE self,
                   Tail(other))

\* Iter::next with pop_back in the place of pop_front
Iter_next_back(deque) ==
    IF deque = <<>> THEN [deque |-> deque, item |-> <<>>]
    ELSE [deque |-> SubSeq(deque, 1, Len(deque) - 1),
          item  |-> <<deque[Len(deque)]>>]

\* Iter::next: the deque after pop_front, and what pop_front returns
Iter_next(deque) ==
    IF deque = <<>> THEN [deque |-> deque, item |-> <<>>]
    ELSE [deque |-> Tail(deque), item |-> <<Head(deque)>>]

\* ObjectIters::curve_iter .. vertex_iter for the kind K: an object of the
\* kind K returns itself, every other object merges what the objects it
\* references return
RECURSIVE kind_iter(_, _)
RECURSIVE iter_over(_, _, _)
kind_iter(o, K) ==
    IF o.kind = K THEN Iter_from_object(o)
    ELSE iter_over(referenced_objects(o), K, Iter_empty)

\* `for object in self.referenced_objects() { iter = iter.with(..) }`
iter_over(objects, K, iter) ==
    IF objects = <<>> THEN iter
    ELSE iter_over(Tail(objects), K, Iter_with(iter, kind_iter(Head(objects), K)))

-----------------------------------------------------------------------------
(* Objects the traversal is asked of *)

Points == 1..MaxPoints

\* the triangles on three points in a row: p, q, r in ascending order, the
\* same triangle started at q, and the triangle walked the other way round
Polygons ==
    LET asc == {<<p, p + 1, p + 2>> : p \in {q \in Points : q + 2 \in Points}}
    IN  asc \cup {<<t[2], t[3], t[1]>> : t \in asc}
            \cup {<<t[3], t[2], t[1]>> : t \in asc}

\* faces with a triangle as exterior and without or with a circular hole,
\* and a face given by triangles
BRepFaces ==
    {Face_brep(s, <<Cycle_polygon_from_points(s, poly)>>, holes) :
        s \in Surfaces, poly \in Polygons,
        holes \in {<<>>, <<Cycle_new(<<Edge_circle(1)>>)>>}}

Faces == BRepFaces \cup {Face_triangles(<<1>>)}

\* the order of the set of faces of a Sketch or Solid
FaceObjectKey(f) ==
    IF triangles_is_some(f) THEN <<0>>
    ELSE <<1, f.surface.plane, Len(f.interiors)>> \o
         [n \in 1..Len(f.exteriors[1].edges) |->
             f.exteriors[1].edges[n].curve.local_form[1]]

\* the faces fs as an ordered set
FaceObjectsInOrder(fs) ==
    IF Cardinality(fs) <= 1 THEN [n \in 1..Cardinality(fs) |-> CHOOSE f \in fs : TRUE]
    ELSE LET f == CHOOSE x \in fs :
                     \A y \in fs : x = y \/ LexLess(FaceObjectKey(x), FaceObjectKey(y))
         IN  <<f, CHOOSE y \in fs : y # f>>

FaceSets == {{f, g} : f \in Faces, g \in Faces} \cup {{}}

Objects ==
    LET solids   == {Solid_object_from_faces(FaceObjectsInOrder(fs)) : fs \in FaceSets}
        sketches == {Sketch_from_faces(FaceObjectsInOrder({f})) : f \in Faces}
                    \cup {Sketch_from_faces(<<>>)}
        cycles   == UNION {{all_cycles(f)[n] : n \in 1..Len(all_cycles(f))} : f \in BRepFaces}
        edges    == UNION {{c.edges[n] : n \in 1..Len(c.edges)} : c \in cycles}
        vertices == UNION {{e.vertices[n] : n \in 1..Len(e.vertices)} : e \in edges}
    IN  solids \cup sketches \cup Faces \cup cycles \cup edges \cup vertices
        \cup {f.surface : f \in BRepFaces}
        \cup {e.curve.global_form : e \in edges}
        \cup {v.global : v \in vertices}

-----------------------------------------------------------------------------
(* The caller of the traversal *)

NoIter == [live |-> FALSE, deque |-> <<>>, taken |-> <<>>]

Names == {"first", "second"}

\* `let it = object.<kind>_iter()`: a new iterator, under the name w
IterCall(w) ==
    /\ pc = "iter"
    /\ iters' = [iters EXCEPT ![w] =
                    [live |-> TRUE, deque |-> kind_iter(object, kind), taken |-> <<>>]]
    /\ UNCHANGED <<object, kind>>
    /\ UNCHANGED unionVars
    /\ UNCHANGED triVars

\* `it.next()`
IterNext(w) ==
    /\ pc = "iter"
    /\ iters[w].live
    /\ LET r == Iter_next(iters[w].deque)
       IN  iters' = [iters EXCEPT ![w] =
                        [live |-> TRUE, deque |-> r.deque,
                         taken |-> iters[w].taken \o r.item]]
    /\ UNCHANGED <<object, kind>>
    /\ UNCHANGED unionVars
    /\ UNCHANGED triVars

InitIter ==
    /\ object \in Objects
    /\ kind \in Kinds
    /\ iters = [w \in Names |-> NoIter]
    /\ a = <<>>
    /\ b = <<>>
    /\ i = 1
    /\ j = 1
    /\ faces = {}
    /\ pc = "iter"
    /\ result = {}
    /\ dropped = {}
    /\ shape = <<>>
    /\ nface = 1
    /\ mesh = <<>>
    /\ debug_info = <<>>
    /\ calls = {}

NextIter == \E w \in Names : IterCall(w) \/ IterNext(w)

SpecIter == InitIter /\ [][NextIter]_vars

-----------------------------------------------------------------------------
(* Vocabulary of the properties of union *)

\* the pair of faces has an intersection curve
HasCurve(fa, fb) == ~surface_surface(surface(fa), surface(fb)).none

\* intervals_a / intervals_b of a pair with an intersection curve
IntervalsA(fa, fb) ==
    CurveFaceIntersectionList_compute(
        surface_surface(surface(fa), surface(fb)).curve_a, fa)

IntervalsB(fa, fb) ==
    CurveFaceIntersectionList_compute(
        surface_surface(surface(fa), surface(fb)).curve_b, fb)

\* the loops stand at a pair of faces
AtPair == pc = "loop" /\ i <= Len(a) /\ j <= Len(b)

\* the pair the body ran for last, while the loops are still running
HasPrev == pc = "loop" /\ Len(b) > 0 /\ (j > 1 \/ i > 1) /\ i <= Len(a) + 1
PrevI == IF j > 1 THEN i ELSE i - 1
PrevJ == IF j > 1 THEN j - 1 ELSE Len(b)

\* the cuboids all of whose six faces are faces of the solid
Cuboids(solid) ==
    LET fs == FaceSet(solid)
        xs == {f \in fs : f.axis = 1}
    IN  {bx \in {[lo |-> f.lo, hi |-> g.hi] : f \in xs, g \in xs} :
            /\ \A k \in Axes : bx.lo[k] < bx.hi[k]
            /\ BoxFaces(bx.lo, bx.hi) \subseteq fs}

BoxesApart(x, y) ==
    \E k \in Axes : x.hi[k] < y.lo[k] \/ y.hi[k] < x.lo[k]

BoxInside(x, y) ==
    \A k \in Axes : y.lo[k] < x.lo[k] /\ x.hi[k] < y.hi[k]

\* a well-formed solid: its faces are the faces of one or more cuboids that
\* lie apart from each other (a closed volume)
WellFormed(solid) ==
    /\ Cuboids(solid) # {}
    /\ FaceSet(solid) = UNION {BoxFaces(bx.lo, bx.hi) : bx \in Cuboids(solid)}
    /\ \A x \in Cuboids(solid), y \in Cuboids(solid) : x = y \/ BoxesApart(x, y)

\* the two solids have no point in common
Disjoint(s1, s2) ==
    \A x \in Cuboids(s1), y \in Cuboids(s2) : BoxesApart(x, y)

\* every point of s2 is an inner point of s1
StrictlyContains(s1, s2) ==
    \A y \in Cuboids(s2) : \E x \in Cuboids(s1) : BoxInside(y, x)

-----------------------------------------------------------------------------
(* Properties of union *)

\* C1: at every face pair with an intersection curve the body follows the
\* decision table on (intervals_a empty, intervals_b empty): (true, true)
\* inserts both faces, (false, true) inserts only face_a, (true, false)
\* inserts only face_b.
C1_DecisionTable ==
    [][AtPair /\ HasCurve(face_a, face_b) =>
        LET ea == is_empty(IntervalsA(face_a, face_b))
            eb == is_empty(IntervalsB(face_a, face_b))
        IN  /\ (ea /\ eb)  => faces' = faces \cup {face_a, face_b}
            /\ (~ea /\ eb) => faces' = faces \cup {face_a}
            /\ (ea /\ ~eb) => faces' = faces \cup {face_b}]_vars

\* the body has just run for a pair with intervals_a non-empty and
\* intervals_b empty: face_a is in the set and face_b is not
C1_Witness ==
    /\ HasPrev
    /\ HasCurve(a[PrevI], b[PrevJ])
    /\ ~is_empty(IntervalsA(a[PrevI], b[PrevJ]))
    /\ is_empty(IntervalsB(a[PrevI], b[PrevJ]))
    /\ a[PrevI] \in faces
    /\ b[PrevJ] \notin faces

\* C2: the union of two disjoint well-formed solids is returned and holds
\* exactly the faces of both.
C2_DisjointUnion ==
    (pc # "loop" /\ WellFormed(a) /\ WellFormed(b) /\ Disjoint(a, b)) =>
        /\ pc = "done"
        /\ result = {Solid_from_faces(FaceSet(a) \cup FaceSet(b))}

\* C3: when one solid strictly contains the other, the union is returned and
\* is the containing solid, whichever argument it is.
C3_NestedUnion ==
    (pc # "loop" /\ WellFormed(a) /\ WellFormed(b)) =>
        /\ StrictlyContains(a, b) => (pc = "done" /\ result = {a})
        /\ StrictlyContains(b, a) => (pc = "done" /\ result = {b})

\* C5: union is total on well-formed solids: it never stops without
\* returning a Solid.
C5_Total ==
    (WellFormed(a) /\ WellFormed(b)) => pc # "panicked"

\* C6: a Solid is returned only if no pair of faces had both interval lists
\* non-empty, and no face is missing from a returned Solid for the reason
\* that all its pairs ran into the case without an intersection curve.
C6_LoudFailures ==
    pc = "done" =>
        /\ \A fa \in FaceSet(a), fb \in FaceSet(b) :
              HasCurve(fa, fb) =>
                 is_empty(IntervalsA(fa, fb)) \/ is_empty(IntervalsB(fa, fb))
        /\ \A fa \in FaceSet(a) :
              (b # <<>> /\ \A fb \in FaceSet(b) : ~HasCurve(fa, fb))
                 => \E r \in result : fa \in FaceSet(r)
        /\ \A fb \in FaceSet(b) :
              (a # <<>> /\ \A fa \in FaceSet(a) : ~HasCurve(fa, fb))
                 => \E r \in result : fb \in FaceSet(r)

-----------------------------------------------------------------------------
(* Vocabulary of the properties of the traversal *)

Range(seq) == {seq[n] : n \in 1..Len(seq)}

\* the direct references of an object, in the order of their declaration:
\* Solid and Sketch: the faces; a B-rep Face: its surface and all its cycles;
\* Cycle: its edges; Edge: the global form of its curve and its vertices;
\* Vertex: its global vertex; a Face of triangles and every other object: none
DirectReferences(o) ==
    CASE o.kind \in {"solid", "sketch"} -> o.faces
      [] o.kind = "face" /\ o.representation = "BRep"
                                       -> <<o.surface>> \o o.exteriors \o o.interiors
      [] o.kind = "cycle"              -> o.edges
      [] o.kind = "edge"               -> <<o.curve.global_form>> \o o.vertices
      [] o.kind = "vertex"             -> <<o.global>>
      [] OTHER                         -> <<>>

\* the objects reachable from the objects os through direct references
RECURSIVE ReachableFrom(_)
ReachableFrom(os) ==
    LET more == os \cup UNION {Range(DirectReferences(o)) : o \in os}
    IN  IF more = os THEN os ELSE ReachableFrom(more)

\* the sequence seq without the objects of `known` and without repetitions
RECURSIVE NewOnes(_, _)
NewOnes(seq, known) ==
    IF seq = <<>> THEN <<>>
    ELSE IF Head(seq) \in known THEN NewOnes(Tail(seq), known)
    ELSE <<Head(seq)>> \o NewOnes(Tail(seq), known \cup {Head(seq)})

RECURSIVE Flatten(_)
Flatten(seqs) == IF seqs = <<>> THEN <<>> ELSE Head(seqs) \o Flatten(Tail(seqs))

\* breadth-first discovery: `order` holds the objects discovered so far, its
\* last objects `frontier` are the ones discovered at the current depth
RECURSIVE BreadthFirst(_, _)
BreadthFirst(order, frontier) ==
    LET found == NewOnes(Flatten([n \in 1..Len(frontier) |->
                                     DirectReferences(frontier[n])]),
                         Range(order))
    IN  IF found = <<>> THEN order ELSE BreadthFirst(order \o found, found)

\* the objects of the kind K in seq, in their order
OfKind(seq, K) == SelectSeq(seq, LAMBDA o : o.kind = K)

\* the sequence an iterator of the caller yields: what was taken from it,
\* then what it still holds
Yielded(w) == iters[w].taken \o iters[w].deque

-----------------------------------------------------------------------------
(* Properties of the traversal *)

\* C7: the sequence an iterator returns holds no object twice, also when
\* several owners reference the object.
C7_EachObjectOnce ==
    \A w \in Names : iters[w].live =>
        \A m \in 1..Len(Yielded(w)), n \in 1..Len(Yielded(w)) :
            m # n => Yielded(w)[m] # Yielded(w)[n]

\* all global vertices of a cycle were taken from an iterator: three, each
\* shared by two edges
C7_Witness ==
    /\ pc = "iter" /\ object.kind = "cycle" /\ kind = "global_vertex"
    /\ iters["first"].live /\ iters["first"].deque = <<>>
    /\ Len(iters["first"].taken) = 3
    /\ Len(object.edges) = 3

\* C8: the objects an iterator yields are the objects of the asked kind
\* among the object itself and everything reachable from it through the
\* direct references.
C8_AllReachableOfKind ==
    \A w \in Names : iters[w].live =>
        Range(Yielded(w)) = {o \in ReachableFrom({object}) : o.kind = kind}

\* the cycles of a solid with a face of triangles and a face with a hole
C8_Witness ==
    /\ pc = "iter" /\ object.kind = "solid" /\ kind = "cycle"
    /\ \E f \in Range(object.faces) : f.representation = "Triangles"
    /\ \E f \in Range(object.faces) :
          f.representation = "BRep" /\ f.interiors # <<>>
    /\ iters["first"].live /\ iters["first"].deque = <<>>
    /\ Len(iters["first"].taken) = 2

\* C9: the objects of the asked kind are yielded in the order in which a
\* breadth-first walk from the object discovers them.
C9_BreadthFirstOrder ==
    \A w \in Names : iters[w].live =>
        Yielded(w) = OfKind(BreadthFirst(<<object>>, <<object>>), kind)

\* the vertices of a solid with two B-rep faces, all taken
C9_Witness ==
    /\ pc = "iter" /\ object.kind = "solid" /\ kind = "vertex"
    /\ Len(object.faces) = 2
    /\ \A f \in Range(object.faces) : f.representation = "BRep"
    /\ iters["first"].live /\ iters["first"].deque = <<>>
    /\ Len(iters["first"].taken) >= 6

-----------------------------------------------------------------------------
(* Triangulation (algorithms/triangulation): points, surfaces, faces        *)
(*                                                                         *)
(* Points have integer coordinates. A surface is one of the planes         *)
(* Surface::xy_plane() and Surface::xz_plane(); a point of the pipeline    *)
(* carries its surface coordinates (local) and its 3D position (canonical).*)

\* Surface::point_from_surface_coords
TriSurface_point_from_surface_coords(srf, uv) ==
    IF srf = "xy" THEN <<uv[1], uv[2], 0>> ELSE <<uv[1], 0, uv[2]>>

\* Surface::point_to_surface_coords: the surface coordinates of a 3D point,
\* together with the point itself
point_to_surface_coords(srf, xyz) ==
    [local     |-> IF srf = "xy" THEN <<xyz[1], xyz[2]>> ELSE <<xyz[1], xyz[3]>>,
     canonical |-> xyz]

\* Face::Face(brep): surface, one exterior and any interior polygons (in
\* surface coordinates), color
Face_Face(srf, exterior, interiors, color) ==
    [variant |-> "Face", surface |-> srf, exterior |-> exterior,
     interiors |-> interiors, color |-> color]

\* Face::Triangles(triangles): a list of (triangle, color)
Face_Triangles(triangles) ==
    [variant |-> "Triangles", triangles |-> triangles]

\* FaceApprox::new for a face whose edges are line segments: the 3D
\* positions of the vertices of every cycle; `points` holds all of them
FaceApprox_new(face) ==
    LET to3d(poly) == [k \in 1..Len(poly) |->
                          TriSurface_point_from_surface_coords(face.surface, poly[k])]
        ext  == to3d(face.exterior)
        ints == [h \in 1..Len(face.interiors) |-> to3d(face.interiors[h])]
    IN  [points    |-> {ext[k] : k \in 1..Len(ext)} \cup
                       UNION {{ints[h][k] : k \in 1..Len(ints[h])} : h \in 1..Len(ints)},
         exterior  |-> ext,
         interiors |-> ints]

\* twice the signed area of the triangle o, p, q
Cross(o, p, q) ==
    (p[1] - o[1]) * (q[2] - o[2]) - (p[2] - o[2]) * (q[1] - o[1])

\* s lies strictly inside the circle through p, q, r
InCircle(p, q, r, s) ==
    LET ax == p[1] - s[1]
        ay == p[2] - s[2]
        bx == q[1] - s[1]
        by == q[2] - s[2]
        cx == r[1] - s[1]
        cy == r[2] - s[2]
        det == (ax * ax + ay * ay) * (bx * cy - cx * by)
             - (bx * bx + by * by) * (ax * cy - cx * ay)
             + (cx * cx + cy * cy) * (ax * by - bx * ay)
    IN  det * Cross(p, q, r) > 0

\* the interiors of two convex polygons (sets of corners) have a point in
\* common: no edge of either has the other polygon on its far side
EdgesOf(poly) ==
    {<<poly[k], poly[(k % Len(poly)) + 1]>> : k \in 1..Len(poly)}

Separates(P, Q) ==
    \E e \in EdgesOf(P) :
        \A w \in {P[k] : k \in 1..Len(P)}, z \in {Q[k] : k \in 1..Len(Q)} :
            Cross(e[1], e[2], w) * Cross(e[1], e[2], z) <= 0

ConvexOverlap(P, Q) == ~Separates(P, Q) /\ ~Separates(Q, P)

\* the order of points and of triangles in the lists of the pipeline
PointLess(p, q) == LexLess(p.local, q.local)

SortedTriangle(T) ==
    LET p == CHOOSE x \in T : \A y \in T : x = y \/ PointLess(x, y)
        r == CHOOSE x \in T : \A y \in T : x = y \/ PointLess(y, x)
        q == CHOOSE x \in T : x # p /\ x # r
    IN  <<p, q, r>>

TriangleKey(t) == t[1].local \o t[2].local \o t[3].local

RECURSIVE TrianglesInOrder(_)
TrianglesInOrder(ts) ==
    IF ts = {} THEN <<>>
    ELSE LET t == CHOOSE x \in ts :
                     \A y \in ts : x = y \/ LexLess(TriangleKey(x), TriangleKey(y))
         IN  <<t>> \o TrianglesInOrder(ts \ {t})

LocalCorners(t) == <<t[1].local, t[2].local, t[3].local>>

\* two triangles of one triangulation may not lie over each other
TrianglesClash(t, u) ==
    t # u /\ ConvexOverlap(LocalCorners(t), LocalCorners(u))

\* the largest sets of triangles among cands no two of which clash: such a
\* set holds any given triangle or one that clashes with it
RECURSIVE DisjointChoices(_)
DisjointChoices(cands) ==
    IF cands = {} THEN {{}}
    ELSE LET t == CHOOSE x \in cands : TRUE
         IN  UNION {{{u} \cup X : X \in DisjointChoices(
                              {v \in cands : v # u /\ ~TrianglesClash(u, v)})} :
                    u \in {t} \cup {v \in cands : TrianglesClash(t, v)}}

\* delaunay::triangulate: the triangulations of the points that have the
\* Delaunay property (no point strictly inside the circle of a triangle);
\* more than one where four or more points lie on an empty circle
delaunay_triangulate(points) ==
    LET valid == {SortedTriangle(T) : T \in
                    {T \in SUBSET points :
                        /\ Cardinality(T) = 3
                        /\ \E p \in T, q \in T, r \in T :
                              Cross(p.local, q.local, r.local) # 0
                        /\ \A s \in points \ T :
                              LET t == SortedTriangle(T)
                              IN  ~InCircle(t[1].local, t[2].local, t[3].local, s.local)}}
    IN  DisjointChoices(valid)

\* Polygon::new(surface).with_exterior(..).with_interiors(..)
Polygon_new(exterior, interiors) ==
    [exterior |-> exterior, interiors |-> interiors]

\* the point pt lies on an edge of the polygon
OnBoundary(pt, poly) ==
    \E e \in EdgesOf(poly) :
        /\ Cross(e[1], e[2], pt) = 0
        /\ (pt[1] - e[1][1]) * (pt[1] - e[2][1]) <= 0
        /\ (pt[2] - e[1][2]) * (pt[2] - e[2][2]) <= 0

\* ray casting: the ray from pt in direction +x crosses an odd number of edges
StrictlyInside(pt, poly) ==
    /\ ~OnBoundary(pt, poly)
    /\ Cardinality({k \in 1..Len(poly) :
          LET u == poly[k]
              v == poly[(k % Len(poly)) + 1]
              d == v[2] - u[2]
              side == (pt[1] - u[1]) * d - (pt[2] - u[2]) * (v[1] - u[1])
          IN  /\ (u[2] > pt[2]) # (v[2] > pt[2])
              /\ (d > 0 /\ side < 0) \/ (d < 0 /\ side > 0)}) % 2 = 1

\* the points a triangle is sampled at, in units of 1/6: its centroid and
\* the midpoints of its edges
Samples(t) ==
    {<<2 * (t[1][1] + t[2][1] + t[3][1]), 2 * (t[1][2] + t[2][2] + t[3][2])>>,
     <<3 * (t[1][1] + t[2][1]), 3 * (t[1][2] + t[2][2])>>,
     <<3 * (t[2][1] + t[3][1]), 3 * (t[2][2] + t[3][2])>>,
     <<3 * (t[1][1] + t[3][1]), 3 * (t[1][2] + t[3][2])>>}

InSixths(poly) == [k \in 1..Len(poly) |-> <<6 * poly[k][1], 6 * poly[k][2]>>]

\* the segment from u to v passes through the interior of the triangle: no
\* edge of the triangle has the segment on its far side, and the triangle
\* does not lie on one side of the segment
PassesThrough(u, v, triangle) ==
    LET corners == {triangle[k] : k \in 1..3}
    IN  /\ \A e \in EdgesOf(triangle) : \A w \in corners :
              \/ Cross(e[1], e[2], w) = 0
              \/ Cross(e[1], e[2], u) * Cross(e[1], e[2], w) > 0
              \/ Cross(e[1], e[2], v) * Cross(e[1], e[2], w) > 0
        /\ \E z \in corners : Cross(u, v, z) > 0
        /\ \E z \in corners : Cross(u, v, z) < 0

\* a triangle that an edge of the polygon passes through straddles its
\* boundary
Straddles(triangle, poly) ==
    \E e \in EdgesOf(poly) : PassesThrough(e[1], e[2], triangle)

\* Polygon::contains_triangle: the interior of the triangle lies in the
\* exterior polygon and outside every interior polygon. Every sample lies in
\* the exterior polygon and in no interior polygon, a sample on a boundary
\* passes; a triangle that straddles a boundary does not pass
contains_triangle(polygon, triangle) ==
    /\ \A pt \in Samples(triangle) :
          /\ \/ StrictlyInside(pt, InSixths(polygon.exterior))
             \/ OnBoundary(pt, InSixths(polygon.exterior))
          /\ \A h \in 1..Len(polygon.interiors) :
                ~StrictlyInside(pt, InSixths(polygon.interiors[h]))
    /\ ~Straddles(triangle, polygon.exterior)
    /\ \A h \in 1..Len(polygon.interiors) :
          ~Straddles(triangle, polygon.interiors[h])

\* Mesh::push_triangle
push_triangle(m, points, color) ==
    Append(m, [points |-> points, color |-> color])

RECURSIVE push_triangles(_, _, _)
push_triangles(m, triangles, color) ==
    IF triangles = <<>> THEN m
    ELSE push_triangles(
            push_triangle(m, [k \in 1..3 |-> Head(triangles)[k].canonical], color),
            Tail(triangles), color)

\* every triangle pushed with the color of the first one
push_colored_triangles_first_color(m, triangles) ==
    m \o [k \in 1..Len(triangles) |->
            [points |-> triangles[k][1], color |-> triangles[1][2]]]

\* `for &(triangle, color) in triangles { mesh.push_triangle(..) }`
RECURSIVE push_colored_triangles(_, _)
push_colored_triangles(m, triangles) ==
    IF triangles = <<>> THEN m
    ELSE push_colored_triangles(
            push_triangle(m, Head(triangles)[1], Head(triangles)[2]),
            Tail(triangles))

\* Mesh::contains_triangle: the mesh holds a triangle on these three points
Mesh_contains_triangle(m, points) ==
    \E k \in 1..Len(m) :
        {m[k].points[c] : c \in 1..3} = {points[c] : c \in 1..3}

-----------------------------------------------------------------------------
(* Shapes handed to triangulate *)

Colors == {"red", "blue"}

TriSurfaces == {"xy", "xz"}

\* the quadrilateral of tests::simple, the square of tests::simple_hole, and a
\* polygon with a notch
Quad == <<<<0, 0>>, <<2, 0>>, <<2, 2>>, <<0, 1>>>>
Square == <<<<0, 0>>, <<4, 0>>, <<4, 4>>, <<0, 4>>>>
Notched == <<<<0, 0>>, <<4, 0>>, <<4, 4>>, <<2, 1>>, <<0, 4>>>>

\* holes of the square: the one of tests::simple_hole, a square one and a
\* narrow triangular one, whose edges are not all edges of the triangulation
Holes ==
    {<<<<1, 1>>, <<3, 1>>, <<3, 3>>, <<1, 2>>>>,
     <<<<1, 1>>, <<3, 1>>, <<3, 3>>, <<1, 3>>>>,
     <<<<1, 1>>, <<2, 2>>, <<2, 3>>>>}

BRepShapeFaces ==
    {Face_Face(srf, Quad, <<>>, c) : srf \in TriSurfaces, c \in Colors}
    \cup {Face_Face("xy", Square, <<>>, "red"),
          Face_Face("xz", Notched, <<>>, "blue")}
    \cup {Face_Face("xy", Square, <<hole>>, "red") : hole \in Holes}

\* pre-triangulated faces: no, one or two triangles, each with its color
ShapeTriangles ==
    {<<<<0, 0, 0>>, <<1, 0, 0>>, <<0, 1, 0>>>>,
     <<<<0, 0, 1>>, <<1, 0, 1>>, <<0, 1, 1>>>>}

TriangleFaces ==
    {Face_Triangles(<<>>)}
    \cup {Face_Triangles(<<<<t, "red">>>>) : t \in ShapeTriangles}
    \cup {Face_Triangles(<<<<t, "red">>, <<u, "blue">>>>) :
              t \in ShapeTriangles, u \in ShapeTriangles}

ShapeFaces == BRepShapeFaces \cup TriangleFaces

RECURSIVE ShapesOfLen(_)
ShapesOfLen(len) ==
    IF len = 0 THEN {<<>>}
    ELSE {Append(sh, f) : sh \in ShapesOfLen(len - 1), f \in ShapeFaces}

Shapes == UNION {ShapesOfLen(len) : len \in 0..MaxFaces}

-----------------------------------------------------------------------------
(* triangulate (triangulation/mod.rs) *)

\* the B-rep arm without `triangles.retain(..)`
BRepTriangles_noRetain(brep, triangulation) ==
    [retained |-> TrianglesInOrder(triangulation), rejected |-> <<>>]

\* the B-rep arm with the test of `retain` the wrong way round
BRepTriangles_retainRejected(brep, triangulation) ==
    LET polygon == Polygon_new(brep.exterior, brep.interiors)
        triangles == TrianglesInOrder(triangulation)
        keep(t) == ~contains_triangle(polygon, LocalCorners(t))
        drop(t) == contains_triangle(polygon, LocalCorners(t))
    IN  [retained |-> SelectSeq(triangles, keep),
         rejected |-> SelectSeq(triangles, drop)]

\* the B-rep arm up to the filter, for one answer of delaunay::triangulate:
\* the triangles that are kept and those that are not
BRepTriangles(brep, triangulation) ==
    LET srf     == brep.surface
        approx  == FaceApprox_new(brep)
        local(poly) == [k \in 1..Len(poly) |->
                           point_to_surface_coords(srf, poly[k]).local]
        face_as_polygon ==
            Polygon_new(local(approx.exterior),
                        [h \in 1..Len(approx.interiors) |-> local(approx.interiors[h])])
        triangles == TrianglesInOrder(triangulation)
        keep(t) == contains_triangle(face_as_polygon, LocalCorners(t))
        drop(t) == ~keep(t)
    IN  [retained |-> SelectSeq(triangles, keep),
         rejected |-> SelectSeq(triangles, drop)]

\* the points handed to delaunay::triangulate
BRepPoints(brep) ==
    {point_to_surface_coords(brep.surface, vertex) :
        vertex \in FaceApprox_new(brep).points}

\* what the B-rep arm can make of each face of the shapes: one outcome for
\* every answer of delaunay::triangulate (worked out once per face)
BRepOutcomes ==
    [brep \in BRepShapeFaces |->
        {BRepTriangles(brep, triangulation) :
            triangulation \in delaunay_triangulate(BRepPoints(brep))}]

\* One run of the body of `for face in shape.faces()`
TriangulateFace ==
    /\ pc = "triangulate"
    /\ nface <= Len(shape)
    /\ LET face == shape[nface]
       IN  IF face.variant = "Face"
           THEN \E r \in BRepOutcomes[face] :
                       /\ mesh' = push_triangles(mesh, r.retained, face.color)
                       /\ debug_info' = debug_info \o r.rejected
                       /\ calls' = calls \cup
                             {<<nface, "FaceApprox::new">>,
                              <<nface, "delaunay::triangulate">>,
                              <<nface, "Polygon::contains_triangle">>}
           ELSE /\ mesh' = push_colored_triangles(mesh, face.triangles)
                /\ UNCHANGED <<debug_info, calls>>
    /\ nface' = nface + 1
    /\ UNCHANGED <<shape, pc>>
    /\ UNCHANGED <<a, b, i, j, faces, result, dropped>>
    /\ UNCHANGED iterVars

\* The loop is over: `mesh` is returned
TriangulateReturn ==
    /\ pc = "triangulate"
    /\ nface > Len(shape)
    /\ pc' = "triangulated"
    /\ UNCHANGED triVars
    /\ UNCHANGED <<a, b, i, j, faces, result, dropped>>
    /\ UNCHANGED iterVars

InitTri ==
    /\ shape \in Shapes
    /\ nface = 1
    /\ mesh = <<>>
    /\ debug_info = <<>>
    /\ calls = {}
    /\ pc = "triangulate"
    /\ a = <<>>
    /\ b = <<>>
    /\ i = 1
    /\ j = 1
    /\ faces = {}
    /\ result = {}
    /\ dropped = {}
    /\ object = <<>>
    /\ kind = "none"
    /\ iters = [w \in Names |-> NoIter]

NextTri == TriangulateFace \/ TriangulateReturn

SpecTri == InitTri /\ [][NextTri]_vars

-----------------------------------------------------------------------------
(* Properties of triangulate *)

\* the loop is at a face
AtFace == pc = "triangulate" /\ nface <= Len(shape)

\* C11: the body of the loop, run for a pre-triangulated face, appends that
\* face's triangles to the mesh, each with its own color and in their order,
\* leaves the triangles already in the mesh alone, runs neither the
\* approximation nor the Delaunay triangulation nor the containment filter,
\* and leaves the debug sink as it was.
C11_PreTriangulated ==
    [][(AtFace /\ shape[nface].variant = "Triangles") =>
        LET triangles == shape[nface].triangles
        IN  /\ Len(mesh') = Len(mesh) + Len(triangles)
            /\ \A k \in 1..Len(mesh) : mesh'[k] = mesh[k]
            /\ \A k \in 1..Len(triangles) :
                  /\ mesh'[Len(mesh) + k].points = triangles[k][1]
                  /\ mesh'[Len(mesh) + k].color = triangles[k][2]
            /\ debug_info' = debug_info
            /\ calls' = calls]_vars

\* a face of two triangles of different colors was taken into the mesh after
\* a B-rep face that had triangles rejected
C11_Witness ==
    /\ pc = "triangulate" /\ nface = 3
    /\ shape[1].variant = "Face" /\ debug_info # <<>>
    /\ shape[2].variant = "Triangles" /\ Len(shape[2].triangles) = 2
    /\ shape[2].triangles[1][2] # shape[2].triangles[2][2]
    /\ Len(mesh) > 2
    /\ mesh[Len(mesh) - 1].color = shape[2].triangles[1][2]
    /\ mesh[Len(mesh)].color = shape[2].triangles[2][2]
    /\ calls = {<<1, "FaceApprox::new">>, <<1, "delaunay::triangulate">>,
                <<1, "Polygon::contains_triangle">>}

\* the face of tests::simple_hole and the 3D positions of its points
SimpleHoleFace ==
    Face_Face("xy", Square, <<<<<<1, 1>>, <<3, 1>>, <<3, 3>>, <<1, 2>>>>>>, "red")

to_xyz(p) == <<p[1], p[2], 0>>

\* the surface coordinates of the corners of a triangle of the mesh
MeshCorners(srf, t) ==
    [c \in 1..3 |-> point_to_surface_coords(srf, t.points[c]).local]

\* C12: the body of the loop, run for a B-rep face with interior cycles,
\* appends no triangle that has a point in common with the inside of an
\* interior cycle, and holds back no triangle but those that have: the
\* triangles between the exterior and the holes are appended. For the face
\* of tests::simple_hole the triangles (a, e, h) and (a, d, h) are appended
\* and none of the triangles on three of the hole's points e, f, g, h is.
C12_HoleExclusion ==
    [][(AtFace /\ shape[nface].variant = "Face" /\ shape[nface].interiors # <<>>) =>
        LET face == shape[nface]
            holes == {face.interiors[h] : h \in 1..Len(face.interiors)}
            new == SubSeq(mesh', Len(mesh) + 1, Len(mesh'))
        IN  /\ \A k \in 1..Len(mesh) : mesh'[k] = mesh[k]
            /\ Len(new) > 0
            /\ \A k \in 1..Len(new), hole \in holes :
                  ~ConvexOverlap(MeshCorners(face.surface, new[k]), hole)
            /\ \A k \in (Len(debug_info) + 1)..Len(debug_info') :
                  \E hole \in holes :
                     ConvexOverlap(LocalCorners(debug_info'[k]), hole)
            /\ face = SimpleHoleFace =>
                  /\ Mesh_contains_triangle(new,
                        <<to_xyz(<<0, 0>>), to_xyz(<<1, 1>>), to_xyz(<<1, 2>>)>>)
                  /\ Mesh_contains_triangle(new,
                        <<to_xyz(<<0, 0>>), to_xyz(<<0, 4>>), to_xyz(<<1, 2>>)>>)
                  /\ \A t \in SUBSET {<<1, 1>>, <<3, 1>>, <<3, 3>>, <<1, 2>>} :
                        Cardinality(t) = 3 =>
                           ~\E k \in 1..Len(new) :
                               {new[k].points[c] : c \in 1..3} = {to_xyz(q) : q \in t}]_vars

\* the face with the narrow hole was triangulated: a triangle with a corner
\* on the exterior was held back because it reaches over the hole, and
\* triangles around the hole are in the mesh
C12_Witness ==
    /\ pc = "triangulate" /\ nface = 2
    /\ shape[1].variant = "Face"
    /\ shape[1].interiors = <<<<<<1, 1>>, <<2, 2>>, <<2, 3>>>>>>
    /\ mesh # <<>>
    /\ \E k \in 1..Len(debug_info) :
          \E c \in 1..3 : OnBoundary(debug_info[k][c].local, shape[1].exterior)

\* C13: the body of the loop, run for the face on the xy-plane with the
\* exterior polygon a = (0,0), b = (2,0), c = (2,2), d = (0,1), appends the
\* triangles (a, b, d) and (b, c, d) and neither (a, b, c) nor (a, c, d): the
\* quadrilateral is split along b-d.
C13_QuadDiagonal ==
    [][(AtFace /\ shape[nface].variant = "Face" /\ shape[nface].surface = "xy"
              /\ shape[nface].exterior = Quad /\ shape[nface].interiors = <<>>) =>
        LET new == SubSeq(mesh', Len(mesh) + 1, Len(mesh'))
            pa == to_xyz(<<0, 0>>)
            pb == to_xyz(<<2, 0>>)
            pc3 == to_xyz(<<2, 2>>)
            pd == to_xyz(<<0, 1>>)
        IN  /\ Mesh_contains_triangle(new, <<pa, pb, pd>>)
            /\ Mesh_contains_triangle(new, <<pb, pc3, pd>>)
            /\ ~Mesh_contains_triangle(new, <<pa, pb, pc3>>)
            /\ ~Mesh_contains_triangle(new, <<pa, pc3, pd>>)
            /\ Len(new) = 2
            /\ \A k \in 1..Len(new) : new[k].color = shape[nface].color]_vars

\* triangulate has returned the mesh of the shape of tests::simple: two
\* triangles
C13_Witness ==
    /\ pc = "triangulated"
    /\ Len(shape) = 1
    /\ shape[1].variant = "Face" /\ shape[1].surface = "xy"
    /\ shape[1].exterior = Quad /\ shape[1].interiors = <<>>
    /\ Len(mesh) = 2
    /\ Mesh_contains_triangle(mesh, <<<<0, 0, 0>>, <<2, 0, 0>>, <<0, 1, 0>>>>)

-----------------------------------------------------------------------------
(* Properties of the Solid that union returns *)

C15_FacesFromInputs ==
    /\ faces \subseteq FaceSet(a) \cup FaceSet(b)
    /\ faces \cap dropped = {}
    /\ \A r \in result :
          /\ FaceSet(r) = faces
          /\ \A m \in 1..Len(r), k \in 1..Len(r) : m # k => r[m] # r[k]
          /\ \A e \in dropped : e \notin FaceSet(r)

\* a Solid with faces of both solids was returned after the body had built
\* edges from merged intervals
C15_Witness ==
    /\ pc = "done"
    /\ dropped # {}
    /\ \E r \in result :
          /\ FaceSet(r) \cap FaceSet(a) # {}
          /\ FaceSet(r) \cap FaceSet(b) # {}
          /\ Len(r) < Len(a) + Len(b)

====
